---------------------------- MODULE Spec2Model ----------------------------
(***************************************************************************)
(* A model of the story-generation backend (llm-story-app/backend/         *)
(* server.js): the handler of POST /api/generate-story, its upstream text  *)
(* call, its sequential per-paragraph image calls, fetchWithTimeout and    *)
(* the response-shape extractor.                                           *)
(*                                                                         *)
(* Strings are sequences of tokens: "\n" is a newline, " " a space, any    *)
(* other token a run of non-blank characters.  JavaScript values are       *)
(* records [t |-> type, s |-> string value].  The handler is split at its  *)
(* await points: every action is the code between two awaits.              *)
(***************************************************************************)
EXTENDS Integers, Sequences, FiniteSets, TLC

\* Largest paragraph count a request asks for.
MaxParagraphs == 3
\* Longest upstream story text, in tokens, that is enumerated exhaustively.
MaxStoryLen == 3
\* Last reading of the process clock, in units of its resolution.
MaxClock == 6
\* Most GET /health requests of one run.
MaxHealthCalls == 3

\* The timeouts the handler passes to fetchWithTimeout, in milliseconds.
TEXT_TIMEOUT_MS == 60000
IMAGE_TIMEOUT_MS == 90000
\* The default of the request's paragraphs field.
DefaultParagraphs == 3

VARIABLES
    DEV_FALLBACK,       \* process.env.DEV_FALLBACK, read once at start
    DEEPINFRA_API_KEY,  \* process.env.DEEPINFRA_API_KEY: "" when not set
    pc,                 \* where the handler is suspended
    req,                \* the request being handled
    resp,               \* the Response the pending fetch resolved to
    timer,              \* the setTimeout of the fetchWithTimeout in progress
    textResp,           \* the parsed body of the text call
    storyText,          \* extractTextFromDeepInfra(textResp) ?? JSON.stringify
    paraArr,            \* the paragraphs to illustrate
    i,                  \* the image loop's index (0-based, as in the code)
    images,             \* the accumulator of image slots
    imgJson,            \* the parsed body of the last OK image answer
    calls,              \* history: the upstream calls issued for this request
    sent,               \* history: the responses written to res
    uncaught,           \* history: an exception left the handler
    clock,              \* the process's monotonic clock, in ticks since start
    healthSent,         \* history: the responses of GET /health
    form,               \* the client form's React state
    post                \* the client's axios.post promise

vars == <<DEV_FALLBACK, DEEPINFRA_API_KEY, pc, req, resp, timer, textResp,
          storyText, paraArr, i, images, imgJson, calls, sent, uncaught,
          clock, healthSent, form, post>>

----------------------------------------------------------------------------
(* JavaScript values and strings *)

NL == "\n"
SP == " "

Undefined == [t |-> "undefined", s |-> <<>>]
Null == [t |-> "null", s |-> <<>>]
Str(s) == [t |-> "string", s |-> s]
\* A value that is neither a string nor nullish (a nested object).
Obj == [t |-> "object", s |-> <<>>]

\* x ?? y
Nullish(v) == v.t \in {"undefined", "null"}
Coalesce(v, w) == IF Nullish(v) THEN w ELSE v

\* if (x): the empty string and the nullish values are falsy.
Truthy(v) == ~Nullish(v) /\ ~(v.t = "string" /\ v.s = <<>>)

\* String(x)
ToJSString(v) ==
    CASE v.t = "string" -> v.s
      [] v.t = "object" -> <<"[object", SP, "Object]">>
      [] v.t = "null" -> <<"null">>
      [] OTHER -> <<"undefined">>

\* Array.prototype.join on an array of strings.
RECURSIVE Join(_, _)
Join(arr, sep) ==
    IF arr = <<>> THEN <<>>
    ELSE IF Len(arr) = 1 THEN arr[1]
    ELSE arr[1] \o sep \o Join(Tail(arr), sep)

\* String.prototype.trim: leading and trailing white space removed.
IsSpace(c) == c \in {NL, SP}

RECURSIVE TrimStart(_)
TrimStart(s) ==
    IF s # <<>> /\ IsSpace(s[1]) THEN TrimStart(Tail(s)) ELSE s

RECURSIVE TrimEnd(_)
TrimEnd(s) ==
    IF s # <<>> /\ IsSpace(s[Len(s)])
    THEN TrimEnd(SubSeq(s, 1, Len(s) - 1))
    ELSE s

Trim(s) == TrimEnd(TrimStart(s))

\* String.prototype.split(/\n{1,}/): the pieces between maximal runs of
\* newlines; a leading or trailing run leaves an empty piece, and the empty
\* string splits into one empty piece.
RECURSIVE SplitFrom(_, _, _)
SplitFrom(s, k, cur) ==
    IF k > Len(s) THEN <<cur>>
    ELSE IF s[k] = NL
         THEN IF k > 1 /\ s[k - 1] = NL
              THEN SplitFrom(s, k + 1, cur)
              ELSE <<cur>> \o SplitFrom(s, k + 1, <<>>)
         ELSE SplitFrom(s, k + 1, Append(cur, s[k]))

SplitNewlines(s) == SplitFrom(s, 1, <<>>)

\* Array.prototype.filter(p => p.trim()): the pieces that are not blank.
RECURSIVE FilterNonBlank(_)
FilterNonBlank(arr) ==
    IF arr = <<>> THEN <<>>
    ELSE IF Trim(arr[1]) # <<>>
         THEN <<arr[1]>> \o FilterNonBlank(Tail(arr))
         ELSE FilterNonBlank(Tail(arr))

Min(a, b) == IF a < b THEN a ELSE b


----------------------------------------------------------------------------
(* Upstream payloads and JSON.stringify *)

\* The parsed JSON body of the text model: null, a string or an object with
\* any of the fields output, results, choices, detail.  results and choices
\* hold at most their first element; detail is "absent", "error" (an object
\* with an error field) or "other".
NoResult == [output |-> Undefined, content |-> Undefined, text |-> Undefined]
NoChoice == [text |-> Undefined, message |-> Undefined]

JsonNull ==
    [kind |-> "null", str |-> <<>>, output |-> Undefined, results |-> <<>>,
     choices |-> <<>>, detail |-> "absent"]
JsonString(s) == [JsonNull EXCEPT !.kind = "string", !.str = s]
JsonObject(output, results, choices, detail) ==
    [kind |-> "object", str |-> <<>>, output |-> output, results |-> results,
     choices |-> choices, detail |-> detail]

\* JSON.stringify of a string: newlines are escaped, so the text holds none.
Quote(s) ==
    <<"\"">> \o [k \in 1..Len(s) |-> IF s[k] = NL THEN "\\n" ELSE s[k]]
             \o <<"\"">>

StringifyValue(v) ==
    CASE v.t = "string" -> Quote(v.s)
      [] v.t = "object" -> <<"{", "}">>
      [] OTHER -> <<"null">>

\* One "name":value member per field that is not undefined.
Member(name, v) ==
    IF v.t = "undefined" THEN <<>> ELSE <<<<name>> \o StringifyValue(v)>>

Braces(members) == <<"{">> \o Join(members, <<",">>) \o <<"}">>

StringifyResult(r) ==
    Braces(Member("\"output\":", r.output) \o Member("\"content\":", r.content)
           \o Member("\"text\":", r.text))

StringifyChoice(c) ==
    Braces(Member("\"text\":", c.text)
           \o (IF c.message.t = "undefined" THEN <<>>
               ELSE <<<<"\"message\":">>
                      \o Braces(Member("\"content\":", c.message))>>))

StringifyDetail(d) ==
    IF d = "error" THEN <<"{", "\"error\":", "\"", "e", "\"", "}">>
    ELSE <<"{", "}">>

\* JSON.stringify(respJson)
JSONstringify(j) ==
    CASE j.kind = "null" -> <<"null">>
      [] j.kind = "string" -> Quote(j.str)
      [] OTHER ->
         Braces(Member("\"output\":", j.output)
                \o (IF j.results = <<>> THEN <<>>
                    ELSE <<<<"\"results\":", "[">>
                           \o StringifyResult(j.results[1]) \o <<"]">>>>)
                \o (IF j.choices = <<>> THEN <<>>
                    ELSE <<<<"\"choices\":", "[">>
                           \o StringifyChoice(j.choices[1]) \o <<"]">>>>)
                \o (IF j.detail = "absent" THEN <<>>
                    ELSE <<<<"\"detail\":">> \o StringifyDetail(j.detail)>>))

\* extractTextFromDeepInfra(respJson)
extractTextFromDeepInfra(respJson) ==
    IF respJson.kind = "null" \/ (respJson.kind = "string" /\ respJson.str = <<>>)
    THEN Null
    ELSE IF respJson.kind = "string" THEN Str(respJson.str)
    ELSE IF Truthy(respJson.output) THEN respJson.output
    ELSE IF respJson.results # <<>>
    THEN LET r0 == respJson.results[1]
         IN  Coalesce(r0.output,
                 Coalesce(r0.content,
                     Coalesce(r0.text, Str(StringifyResult(r0)))))
    ELSE IF respJson.choices # <<>>
    THEN LET c0 == respJson.choices[1]
         IN  Coalesce(c0.text,
                 Coalesce(c0.message, Str(StringifyChoice(c0))))
    ELSE IF respJson.detail = "error"
    THEN Str(StringifyDetail(respJson.detail))
    ELSE Str(JSONstringify(respJson))

\* const storyText = extractTextFromDeepInfra(textResp) ?? JSON.stringify(textResp)
StoryTextOf(j) == Coalesce(extractTextFromDeepInfra(j), Str(JSONstringify(j)))

\* The parsed JSON body of the image model: null or an object with any of
\* output_url, url and results[0].output.
ImageJson(kind, outputUrl, url, resultOutput) ==
    [kind |-> kind, output_url |-> outputUrl, url |-> url,
     result_output |-> resultOutput]

\* imgJson?.output_url ?? imgJson?.url ?? imgJson?.results?.[0]?.output ?? null
ImageUrlOf(json) ==
    Coalesce(json.output_url,
        Coalesce(json.url, Coalesce(json.result_output, Null)))

----------------------------------------------------------------------------
(* The inputs that are enumerated *)

StoryChars == {"a", SP, NL}

\* Every string of at most n tokens over StoryChars.
RECURSIVE StringsUpTo(_)
StringsUpTo(n) ==
    IF n = 0 THEN {<<>>}
    ELSE LET shorter == StringsUpTo(n - 1)
         IN  shorter \cup {Append(s, c) : s \in shorter, c \in StoryChars}

\* A story of four paragraphs, one more than MaxParagraphs, with a blank
\* segment between two of them.
LongStory == <<"a", NL, NL, "b", NL, SP, NL, "c", NL, "d">>

StoryStrings == StringsUpTo(MaxStoryLen) \cup {LongStory}

ObjectPayloads ==
    { JsonObject(Str(<<"a", NL, "b">>), <<>>, <<>>, "absent"),
      JsonObject(Obj, <<>>, <<>>, "absent"),
      JsonObject(Str(<<>>), <<[NoResult EXCEPT !.content = Str(<<"b">>)]>>,
                 <<>>, "absent"),
      JsonObject(Undefined, <<[NoResult EXCEPT !.output = Str(<<>>)]>>,
                 <<>>, "absent"),
      JsonObject(Undefined, <<NoResult>>, <<[NoChoice EXCEPT !.text = Str(<<"c">>)]>>,
                 "absent"),
      JsonObject(Undefined, <<>>, <<[NoChoice EXCEPT !.text = Str(<<"c", NL, "d">>)]>>,
                 "absent"),
      JsonObject(Undefined, <<>>, <<[NoChoice EXCEPT !.message = Str(<<"m">>)]>>,
                 "error"),
      JsonObject(Undefined, <<>>, <<>>, "error"),
      JsonObject(Undefined, <<>>, <<>>, "absent") }

TextPayloads == {JsonNull} \cup {JsonString(s) : s \in StoryStrings} \cup ObjectPayloads

ImagePayloads ==
    { ImageJson("object", Str(<<"u1">>), Str(<<"u2">>), Undefined),
      ImageJson("object", Undefined, Str(<<"u2">>), Str(<<"u3">>)),
      ImageJson("object", Undefined, Undefined, Str(<<"u3">>)),
      ImageJson("object", Str(<<>>), Str(<<"u2">>), Undefined),
      ImageJson("object", Undefined, Undefined, Undefined) }

\* The bodies of upstream error responses, as words.
ErrorBodies ==
    { <<"Insufficient", SP, "Balance">>, <<"please", SP, "TOP-UP">>,
      <<"model", SP, "not", SP, "found">>, <<>> }

\* The bodies of the image model's error responses.
ImageErrorBodies == {<<"model", SP, "overloaded">>}

\* Non-2xx statuses the text model and the image model answer with.
ErrorStatuses == {402, 500}
ImageErrorStatuses == {429}

\* The request's paragraphs field: absent, a number, or a number of 2^32 or
\* more ("huge"), which is no valid array length.
NoParagraphs == [t |-> "undefined", n |-> 0]
Num(n) == [t |-> "number", n |-> n]
Huge == [t |-> "huge", n |-> 0]

ParagraphValues ==
    {NoParagraphs, Huge} \cup {Num(n) : n \in 0..MaxParagraphs}

\* req.body: undefined when the request carries no JSON body.
NoBody ==
    [present |-> FALSE, genre |-> Undefined, characters |-> <<>>,
     paragraphs |-> NoParagraphs, imagesPerParagraph |-> FALSE]

Bodies ==
    {NoBody} \cup
    { [present |-> TRUE, genre |-> who[1], characters |-> who[2],
       paragraphs |-> p, imagesPerParagraph |-> img] :
        who \in {<<Undefined, <<>>>>,
                 <<Str(<<"mystery">>), <<<<"Arya">>, <<"Tom">>>>>>},
        p \in ParagraphValues, img \in BOOLEAN }

----------------------------------------------------------------------------
(* The responses of POST /api/generate-story *)

NoImageJson == ImageJson("absent", Undefined, Undefined, Undefined)

\* One entry of images.  para is history: the index of the paragraph whose
\* call produced the entry.
UrlSlot(url, para) ==
    [t |-> "url", error |-> <<>>, detail |-> <<>>, url |-> url,
     raw |-> NoImageJson, para |-> para]
RawSlot(json, para) ==
    [t |-> "raw", error |-> <<>>, detail |-> <<>>, url |-> Undefined,
     raw |-> json, para |-> para]
ErrorSlot(error, detail, para) ==
    [t |-> "error", error |-> error, detail |-> detail, url |-> Undefined,
     raw |-> NoImageJson, para |-> para]

\* The status and the JSON body of a response; keys are the body's fields.
Response(status, keys) ==
    [status |-> status, keys |-> keys, story |-> <<>>, paragraphs |-> <<>>,
     images |-> <<>>, raw |-> JsonNull, code |-> "", error |-> "",
     upstream |-> 0, detail |-> <<>>, message |-> ""]

\* Number(paragraphs || 1)
CountOrOne(paragraphs) ==
    IF paragraphs.t = "number" /\ paragraphs.n = 0 THEN Num(1) ELSE paragraphs

\* Array.from({ length }) throws a RangeError for an invalid array length.
ArrayFromThrows(paragraphs) == CountOrOne(paragraphs).t = "huge"

\* charStr || "characters"
CharsOrDefault(charStr) == IF charStr = <<>> THEN <<"characters">> ELSE charStr

\* Array.from({ length: Number(paragraphs || 1) }, (_, i) => `Paragraph ${i+1}: A ${kind} ${genre} scene featuring ${charStr || "characters"}.`)
SyntheticParagraphs(kind, genre, charStr, paragraphs) ==
    [k \in 1..CountOrOne(paragraphs).n |->
        <<"Paragraph", SP, ToString(k), ":", SP, "A", SP, kind, SP>> \o genre
        \o <<SP, "scene", SP, "featuring", SP>> \o CharsOrDefault(charStr)
        \o <<".">>]

BlankLine == <<NL, NL>>

\* The dummy story with its paragraphs joined by a single newline.
DummyResponseSingleNewline(genre, charStr, paragraphs) ==
    LET paragraphsArr == SyntheticParagraphs("short", genre, charStr, paragraphs)
        dummyStory == Join(paragraphsArr, <<NL>>) \o BlankLine
                      \o <<"Preface:", SP, "This", SP, "is", SP, "a", SP,
                           "placeholder", SP, "summary.">>
    IN  [Response(200, {"story", "paragraphs", "images"}) EXCEPT
            !.story = dummyStory, !.paragraphs = paragraphsArr]

\* The reply when no key is configured and fallback is allowed.
DummyResponse(genre, charStr, paragraphs) ==
    LET paragraphsArr == SyntheticParagraphs("short", genre, charStr, paragraphs)
        dummyStory == Join(paragraphsArr, BlankLine) \o BlankLine
                      \o <<"Preface:", SP, "This", SP, "is", SP, "a", SP,
                           "placeholder", SP, "summary.">>
    IN  [Response(200, {"story", "paragraphs", "images"}) EXCEPT
            !.story = dummyStory, !.paragraphs = paragraphsArr]

\* The reply when the text call threw and fallback is allowed.
FallbackResponse(genre, charStr, paragraphs) ==
    LET paragraphsArr == SyntheticParagraphs("fallback", genre, charStr, paragraphs)
        dummyStory == Join(paragraphsArr, BlankLine) \o BlankLine
                      \o <<"Preface:", SP, "This", SP, "is", SP, "a", SP,
                           "fallback", SP, "placeholder.">>
    IN  [Response(200, {"story", "paragraphs", "images"}) EXCEPT
            !.story = dummyStory, !.paragraphs = paragraphsArr]

NetworkErrorResponse(err) ==
    [Response(502, {"error", "message"}) EXCEPT
        !.error = "network_or_upstream", !.message = err]

\* String.prototype.toLowerCase, on the words of an upstream error body.
ToLowerCase(s) ==
    [k \in 1..Len(s) |->
        CASE s[k] \in {"Balance", "BALANCE"} -> "balance"
          [] s[k] \in {"Top-Up", "TOP-UP"} -> "top-up"
          [] s[k] = "Insufficient" -> "insufficient"
          [] OTHER -> s[k]]

\* String.prototype.includes, for a phrase of one word.
Includes(s, word) == \E k \in 1..Len(s) : s[k] = word

\* The test without toLowerCase().
IsInsufficientBalanceCaseSensitive(bodyText) ==
    Includes(bodyText, "balance") \/ Includes(bodyText, "top-up")

IsInsufficientBalance(bodyText) ==
    Includes(ToLowerCase(bodyText), "balance")
        \/ Includes(ToLowerCase(bodyText), "top-up")

InsufficientBalanceResponse(bodyText) ==
    [Response(402, {"code", "message", "detail"}) EXCEPT
        !.code = "insufficient_balance", !.detail = bodyText,
        !.message = "DeepInfra account has insufficient balance. Top up to enable inference."]

UpstreamErrorResponse(status, bodyText) ==
    [Response(502, {"code", "status", "detail"}) EXCEPT
        !.code = "upstream_error", !.upstream = status, !.detail = bodyText]

\* The reply to a non-OK answer of the text model.
TextErrorResponse(status, bodyText) ==
    IF IsInsufficientBalance(bodyText)
    THEN InsufficientBalanceResponse(bodyText)
    ELSE UpstreamErrorResponse(status, bodyText)

\* res.json({ story: String(storyText), raw: textResp, images })
StoryResponse(story, rawJson, imgs) ==
    [Response(200, {"story", "raw", "images"}) EXCEPT
        !.story = ToJSString(story), !.raw = rawJson, !.images = imgs]

ServerErrorResponse(err) ==
    [Response(500, {"error", "message"}) EXCEPT
        !.error = "server_error", !.message = err]

----------------------------------------------------------------------------
(* The handler's locals *)

\* const { genre = "fantasy", characters = [], paragraphs = 3, imagesPerParagraph = false } = req.body
Genre == IF req.genre.t = "undefined" THEN <<"fantasy">> ELSE req.genre.s
Paragraphs ==
    IF req.paragraphs.t = "undefined" THEN Num(DefaultParagraphs)
    ELSE req.paragraphs

\* const charStr = Array.isArray(characters) ? characters.join(", ") : characters
CharStr == Join(req.characters, <<",", SP>>)

\* Number(paragraphs), as the template prints it.
NumberString(paragraphs) ==
    IF paragraphs.t = "huge" THEN "4294967296" ELSE ToString(paragraphs.n)

Prompt ==
    <<"System:", SP, "You are a helpful creative fiction writer.", NL,
      "User:", SP, "Write", SP, "a", SP, NumberString(Paragraphs),
      "-paragraph", SP>> \o Genre
    \o <<SP, "short story for adults.", SP, "Characters:", SP>> \o CharStr
    \o <<".", NL, "Constraints:", SP, "Output only the story and the preface.">>

\* `Create an illustration for: ${p}\nStyle: ...`
ImagePrompt(p) ==
    <<"Create an illustration for:", SP>> \o ToJSString(p)
    \o <<NL, "Style:", SP, "cinematic, detailed, suitable for a book illustration.">>

\* A slice that keeps every element.
SliceUncapped(arr, paragraphs) == arr

\* Array.prototype.slice(0, paragraphs)
Slice(arr, paragraphs) ==
    IF paragraphs.t = "huge" THEN arr
    ELSE SubSeq(arr, 1, Min(paragraphs.n, Len(arr)))

\* A split that falls back to the whole story when it finds nothing.
ParaArrWholeStoryWhenEmpty(story, paragraphs) ==
    IF story.t = "string"
    THEN LET kept == Slice(FilterNonBlank(SplitNewlines(story.s)), paragraphs)
         IN  IF kept = <<>> THEN <<story>>
             ELSE [k \in 1..Len(kept) |-> Str(kept[k])]
    ELSE <<story>>

\* const paraArr = typeof storyText === "string"
\*     ? storyText.split(/\n{1,}/).filter(p => p.trim()).slice(0, paragraphs) : [storyText]
ParaArr(story, paragraphs) ==
    IF story.t = "string"
    THEN LET kept == Slice(FilterNonBlank(SplitNewlines(story.s)), paragraphs)
         IN  [k \in 1..Len(kept) |-> Str(kept[k])]
    ELSE <<story>>

----------------------------------------------------------------------------
(* fetchWithTimeout and the history of upstream calls *)

NoTimer == [armed |-> FALSE, ms |-> 0]
\* const id = setTimeout(() => controller.abort(), timeout)
SetTimeout(ms) == [armed |-> TRUE, ms |-> ms]

\* A Response: body is the text resp.text() has returned (history).
NoResp == [ok |-> FALSE, status |-> 0, body |-> <<>>]

\* A call is "pending" until its fetch settles, "headers" while its body is
\* read, and then "complete", "failed" (the fetch or the body read rejected:
\* the connection dropped), "unparseable" (the body arrived and resp.json()
\* could not parse it) or "aborted" (controller.abort()).  status is the HTTP status of its
\* answer, 0 as long as there is none.
Call(endpoint, para, prompt) ==
    [endpoint |-> endpoint, para |-> para, prompt |-> prompt,
     state |-> "pending", status |-> 0]

TextCall == Call("text", 0, Prompt)
ImageCall(k, p) == Call("image", k, ImagePrompt(p))

\* The last call of cs, moved to state st.
Settle(cs, st) == [cs EXCEPT ![Len(cs)].state = st]

\* The body read is not awaited: the call is still in flight.
BodyNotAwaited(cs) == cs

\* await resp.text() / await resp.json() returned: the call is over.
BodyRead(cs) == Settle(cs, "complete")

Outstanding ==
    {k \in 1..Len(calls) : calls[k].state \in {"pending", "headers"}}

----------------------------------------------------------------------------
(* The client form *)

\* useState("fantasy"), useState("Arya, Tom"), useState(3), useState(false),
\* useState(""), useState([])
InitialForm ==
    [genre |-> "fantasy", characters |-> <<"Arya", ",", SP, "Tom">>,
     paragraphs |-> Num(DefaultParagraphs), loading |-> FALSE,
     story |-> <<>>, images |-> <<>>]

\* The request body of a post that was not made.
NoPostBody == [genre |-> "", characters |-> <<>>, paragraphs |-> NoParagraphs]

\* The promise of axios.post: not made, pending, resolved with a 2xx answer
\* or rejected (status 0: no answer at all).
NoPost == [state |-> "none", status |-> 0, body |-> NoPostBody]

----------------------------------------------------------------------------
(* The handler, one action per stretch of code between two awaits *)

Init ==
    /\ DEV_FALLBACK \in BOOLEAN
    /\ DEEPINFRA_API_KEY \in {"", "key"}
    /\ pc = "idle"
    /\ req = NoBody
    /\ resp = NoResp
    /\ timer = NoTimer
    /\ textResp = JsonNull
    /\ storyText = Undefined
    /\ paraArr = <<>>
    /\ i = 0
    /\ images = <<>>
    /\ imgJson = NoImageJson
    /\ calls = <<>>
    /\ sent = <<>>
    /\ uncaught = FALSE
    /\ clock = 0
    /\ healthSent = <<>>
    /\ form = InitialForm
    /\ post = NoPost

env == <<DEV_FALLBACK, DEEPINFRA_API_KEY>>
\* What GET /health and the client form work on: the story handler reads
\* and writes none of it.
health == <<clock, healthSent>>
client == <<form, post>>
locals == <<textResp, storyText, paraArr, i, images>>
\* What POST /api/generate-story works on.
generation == <<env, pc, req, resp, timer, locals, imgJson, calls, sent, uncaught>>

\* res.json(...) and return: the handler is over.
Reply(r) ==
    /\ sent' = Append(sent, r)
    /\ pc' = "done"
    /\ UNCHANGED uncaught

\* A handler without its outer try: the exception leaves it, and nothing
\* is sent.
OuterCatchMissing(err) ==
    /\ sent' = sent
    /\ pc' = "done"
    /\ uncaught' = TRUE

\* The outer catch: any exception of the handler becomes a 500.
OuterCatch(err) == Reply(ServerErrorResponse(err))

\* A request arrives and express calls the handler.
Receive(body) ==
    /\ pc = "idle"
    /\ pc' = "handler"
    /\ req' = body
    /\ UNCHANGED <<health, client, env, imgJson, resp, timer, locals, calls, sent, uncaught>>

\* A handler that answers with the placeholder story whenever no key is
\* configured.
HandlerDummyWithoutFlag ==
    /\ pc = "handler"
    /\ IF ~req.present
       THEN /\ OuterCatch("TypeError")
            /\ UNCHANGED <<timer, calls>>
       ELSE IF DEEPINFRA_API_KEY = ""
       THEN /\ IF ArrayFromThrows(Paragraphs)
               THEN OuterCatch("RangeError")
               ELSE Reply(DummyResponse(Genre, CharStr, Paragraphs))
            /\ UNCHANGED <<timer, calls>>
       ELSE /\ calls' = Append(calls, TextCall)
            /\ timer' = SetTimeout(TEXT_TIMEOUT_MS)
            /\ pc' = "text_fetch"
            /\ UNCHANGED <<sent, uncaught>>
    /\ UNCHANGED <<health, client, env, imgJson, req, resp, locals>>

\* From the handler's entry to its first await: the destructuring of
\* req.body, the no-key fallback, and the fetch of the text model.
Handler ==
    /\ pc = "handler"
    /\ IF ~req.present
       THEN /\ OuterCatch("TypeError")
            /\ UNCHANGED <<timer, calls>>
       ELSE IF DEEPINFRA_API_KEY = "" /\ DEV_FALLBACK
       THEN /\ IF ArrayFromThrows(Paragraphs)
               THEN OuterCatch("RangeError")
               ELSE Reply(DummyResponse(Genre, CharStr, Paragraphs))
            /\ UNCHANGED <<timer, calls>>
       ELSE /\ calls' = Append(calls, TextCall)
            /\ timer' = SetTimeout(TEXT_TIMEOUT_MS)
            /\ pc' = "text_fetch"
            /\ UNCHANGED <<sent, uncaught>>
    /\ UNCHANGED <<health, client, env, imgJson, req, resp, locals>>

\* A catch that falls back whatever DEV_FALLBACK says.
TextCatchAlwaysFallsBack(err) ==
    IF ArrayFromThrows(Paragraphs)
    THEN OuterCatch("RangeError")
    ELSE Reply(FallbackResponse(Genre, CharStr, Paragraphs))

\* The catch around the text call: the fallback story when DEV_FALLBACK,
\* else a 502.
TextCatch(err) ==
    IF DEV_FALLBACK
    THEN IF ArrayFromThrows(Paragraphs)
         THEN OuterCatch("RangeError")
         ELSE Reply(FallbackResponse(Genre, CharStr, Paragraphs))
    ELSE Reply(NetworkErrorResponse(err))

\* A catch that starts the accumulator afresh.
ImageCatchDropsCollected(err) ==
    /\ images' = <<ErrorSlot(<<"image_generation_failed">>, <<err>>, i)>>
    /\ Reply(StoryResponse(storyText, textResp, images'))

\* A catch that fails the request, as the catch of the text call does.
ImageCatchFailsRequest(err) ==
    /\ images' = Append(images, ErrorSlot(<<"image_generation_failed">>, <<err>>, i))
    /\ Reply(NetworkErrorResponse(err))

\* The catch around the image loop: one more slot, and the story is sent.
ImageCatch(err) ==
    /\ images' = Append(images, ErrorSlot(<<"image_generation_failed">>, <<err>>, i))
    /\ Reply(StoryResponse(storyText, textResp, images'))

\* The fetch resolved: clearTimeout(id), and the Response is returned.
FetchResolves(ok, status) ==
    /\ resp' = [ok |-> ok, status |-> status, body |-> <<>>]
    /\ timer' = NoTimer
    /\ calls' = [Settle(calls, "headers") EXCEPT ![Len(calls)].status = status]

\* The fetch rejected: clearTimeout(id), and the error is thrown on.
FetchRejects(st) ==
    /\ timer' = NoTimer
    /\ calls' = Settle(calls, st)
    /\ UNCHANGED resp

\* The text model answers with a status line and headers.
TextFetchResolves(ok, status) ==
    /\ pc = "text_fetch"
    /\ FetchResolves(ok, status)
    /\ pc' = "text_body"
    /\ UNCHANGED <<health, client, env, imgJson, req, locals, sent, uncaught>>

\* The connection to the text model fails.
TextFetchRejects ==
    /\ pc = "text_fetch"
    /\ FetchRejects("failed")
    /\ TextCatch("FetchError")
    /\ UNCHANGED <<health, client, env, imgJson, req, locals>>

\* The timer of fetchWithTimeout fires: controller.abort() rejects what is
\* awaited on the call with an AbortError.
TimerFires ==
    /\ timer.armed
    /\ pc \in {"text_fetch", "text_body", "img_fetch", "img_body"}
    /\ FetchRejects("aborted")
    /\ IF pc \in {"text_fetch", "text_body"}
       THEN TextCatch("AbortError") /\ UNCHANGED locals
       ELSE ImageCatch("AbortError")
            /\ UNCHANGED <<textResp, storyText, paraArr, i>>
    /\ UNCHANGED <<health, client, env, imgJson, req>>

\* A non-OK answer that is thrown into the catch of the text call.
TextErrorBodyThrows(bodyText) ==
    /\ pc = "text_body"
    /\ ~resp.ok
    /\ resp' = [resp EXCEPT !.body = bodyText]
    /\ calls' = BodyRead(calls)
    /\ TextCatch("HttpError")
    /\ UNCHANGED <<health, client, env, imgJson, req, timer, locals>>

\* await resp.text() of a non-OK answer of the text model.
TextErrorBody(bodyText) ==
    /\ pc = "text_body"
    /\ ~resp.ok
    /\ resp' = [resp EXCEPT !.body = bodyText]
    /\ calls' = BodyRead(calls)
    /\ Reply(TextErrorResponse(resp.status, bodyText))
    /\ UNCHANGED <<health, client, env, imgJson, req, timer, locals>>

\* The state of a call whose body read rejected with err.
Rejected(err) == IF err = "SyntaxError" THEN "unparseable" ELSE "failed"

\* resp.text() or resp.json() of the text model rejects: the connection
\* drops, or the body given to resp.json() is not JSON.
TextBodyFails(err) ==
    /\ pc = "text_body"
    /\ err = "SyntaxError" => resp.ok
    /\ calls' = Settle(calls, Rejected(err))
    /\ TextCatch(err)
    /\ UNCHANGED <<health, client, env, imgJson, req, resp, timer, locals>>

\* fetchWithTimeout(imgUrl, ...) for paragraph k (0-based) of arr, after the
\* calls cs.
FetchImage(cs, arr, k) ==
    /\ calls' = Append(cs, ImageCall(k, arr[k + 1]))
    /\ timer' = SetTimeout(IMAGE_TIMEOUT_MS)
    /\ pc' = "img_fetch"
    /\ UNCHANGED <<sent, uncaught>>

\* The image phase from the loop's test on: the fetch for paragraph k, or
\* the final res.json when the loop is over.
Loop(cs, story, rawJson, arr, k, imgs) ==
    /\ i' = k
    /\ images' = imgs
    /\ IF k < Len(arr)
       THEN FetchImage(cs, arr, k)
       ELSE /\ calls' = cs
            /\ Reply(StoryResponse(story, rawJson, imgs))
            /\ UNCHANGED timer

\* An image phase that runs whatever the request asked for.
TextJsonAlwaysImages(json) ==
    /\ pc = "text_body"
    /\ resp.ok
    /\ textResp' = json
    /\ storyText' = StoryTextOf(json)
    /\ paraArr' = ParaArr(storyText', Paragraphs)
    /\ Loop(BodyRead(calls), storyText', json, paraArr', 0, <<>>)
    /\ UNCHANGED <<health, client, env, imgJson, req, resp>>

\* await resp.json() of an OK answer of the text model, and on to the
\* first image fetch or to the final res.json.
TextJson(json) ==
    /\ pc = "text_body"
    /\ resp.ok
    /\ textResp' = json
    /\ storyText' = StoryTextOf(json)
    /\ IF req.imagesPerParagraph
       THEN /\ paraArr' = ParaArr(storyText', Paragraphs)
            /\ Loop(BodyRead(calls), storyText', json, paraArr', 0, <<>>)
       ELSE /\ calls' = BodyRead(calls)
            /\ Reply(StoryResponse(storyText', json, <<>>))
            /\ UNCHANGED <<paraArr, i, images, timer>>
    /\ UNCHANGED <<health, client, env, imgJson, req, resp>>

\* The image model answers with a status line and headers.
ImageFetchResolves(ok, status) ==
    /\ pc = "img_fetch"
    /\ FetchResolves(ok, status)
    /\ pc' = "img_body"
    /\ UNCHANGED <<health, client, env, imgJson, req, locals, sent, uncaught>>

\* The connection to the image model fails.
ImageFetchRejects ==
    /\ pc = "img_fetch"
    /\ FetchRejects("failed")
    /\ ImageCatch("FetchError")
    /\ UNCHANGED <<health, client, env, imgJson, req, textResp, storyText, paraArr, i>>

\* images.push({ error: `image_upstream_${resp.status}`, detail: txt })
UpstreamErrorSlot(status, txt, k) ==
    ErrorSlot(<<"image_upstream_", ToString(status)>>, txt, k)

\* A non-OK answer that ends the loop (break for continue).
ImageErrorBodyBreaks(txt) ==
    /\ pc = "img_body"
    /\ ~resp.ok
    /\ images' = Append(images, UpstreamErrorSlot(resp.status, txt, i))
    /\ calls' = BodyRead(calls)
    /\ Reply(StoryResponse(storyText, textResp, images'))
    /\ resp' = [resp EXCEPT !.body = txt]
    /\ UNCHANGED <<health, client, env, imgJson, req, timer, textResp, storyText, paraArr, i>>

\* A non-OK answer that is tried once more before its slot is recorded.
ImageErrorBodyRetries(txt) ==
    /\ pc = "img_body"
    /\ ~resp.ok
    /\ IF Cardinality({k \in 1..Len(calls) : calls[k].para = i}) = 1
       THEN Loop(BodyRead(calls), storyText, textResp, paraArr, i, images)
       ELSE Loop(BodyRead(calls), storyText, textResp, paraArr, i + 1,
                 Append(images, UpstreamErrorSlot(resp.status, txt, i)))
    /\ resp' = [resp EXCEPT !.body = txt]
    /\ UNCHANGED <<health, client, env, imgJson, req, textResp, storyText, paraArr>>

\* await resp.text() of a non-OK answer of the image model: an error slot,
\* and continue.
ImageErrorBody(txt) ==
    /\ pc = "img_body"
    /\ ~resp.ok
    /\ Loop(BodyRead(calls), storyText, textResp, paraArr, i + 1,
            Append(images, UpstreamErrorSlot(resp.status, txt, i)))
    /\ resp' = [resp EXCEPT !.body = txt]
    /\ UNCHANGED <<health, client, env, imgJson, req, textResp, storyText, paraArr>>

\* if (url) images.push({ url }); else images.push({ raw: imgJson })
ImageSlot(json, k) ==
    IF Truthy(ImageUrlOf(json))
    THEN UrlSlot(ImageUrlOf(json), k)
    ELSE RawSlot(json, k)

\* await resp.json() of an OK answer of the image model: a url or raw slot,
\* and on to the next paragraph.
ImageJsonBody(json) ==
    /\ pc = "img_body"
    /\ resp.ok
    /\ imgJson' = json
    /\ Loop(BodyRead(calls), storyText, textResp, paraArr, i + 1,
            Append(images, ImageSlot(json, i)))
    /\ UNCHANGED <<health, client, env, req, resp, textResp, storyText, paraArr>>

\* resp.text() or resp.json() of the image model rejects: the connection
\* drops, or the body given to resp.json() is not JSON.
ImageBodyFails(err) ==
    /\ pc = "img_body"
    /\ err = "SyntaxError" => resp.ok
    /\ calls' = Settle(calls, Rejected(err))
    /\ ImageCatch(err)
    /\ UNCHANGED <<health, client, env, imgJson, req, resp, timer, textResp, storyText, paraArr, i>>

\* The response is on the wire and the request is over: the server waits
\* for the next one.  Nothing of a request outlives it.
Finish ==
    /\ pc = "done"
    /\ pc' = "idle"
    /\ req' = NoBody
    /\ resp' = NoResp
    /\ timer' = NoTimer
    /\ textResp' = JsonNull
    /\ storyText' = Undefined
    /\ paraArr' = <<>>
    /\ i' = 0
    /\ images' = <<>>
    /\ calls' = <<>>
    /\ sent' = <<>>
    /\ uncaught' = FALSE
    /\ imgJson' = NoImageJson
    /\ UNCHANGED <<health, client, env>>

Next ==
    \/ \E body \in Bodies : Receive(body)
    \/ Handler
    \/ \E status \in ErrorStatuses : TextFetchResolves(FALSE, status)
    \/ TextFetchResolves(TRUE, 200)
    \/ TextFetchRejects
    \/ TimerFires
    \/ \E bodyText \in ErrorBodies : TextErrorBody(bodyText)
    \/ \E err \in {"FetchError", "SyntaxError"} : TextBodyFails(err)
    \/ \E json \in TextPayloads : TextJson(json)
    \/ \E status \in ImageErrorStatuses : ImageFetchResolves(FALSE, status)
    \/ ImageFetchResolves(TRUE, 200)
    \/ ImageFetchRejects
    \/ \E txt \in ImageErrorBodies : ImageErrorBody(txt)
    \/ \E json \in ImagePayloads : ImageJsonBody(json)
    \/ \E err \in {"FetchError", "SyntaxError"} : ImageBodyFails(err)
    \/ Finish

Spec == Init /\ [][Next]_vars

\* The event loop runs what is ready: the handler's own code, a timer that
\* is armed, the end of a request.  Nothing makes the upstream answer.
LiveSpec ==
    Spec /\ WF_vars(Handler) /\ WF_vars(TimerFires) /\ WF_vars(Finish)

----------------------------------------------------------------------------
(* The client: App and its submit *)

\* characters.split(","): the pieces between the commas, empty ones kept.
RECURSIVE SplitCommasFrom(_, _, _)
SplitCommasFrom(s, k, cur) ==
    IF k > Len(s) THEN <<cur>>
    ELSE IF s[k] = ","
         THEN <<cur>> \o SplitCommasFrom(s, k + 1, <<>>)
         ELSE SplitCommasFrom(s, k + 1, Append(cur, s[k]))

\* characters.split(",").map(s => s.trim())
CharacterList(s) ==
    LET pieces == SplitCommasFrom(s, 1, <<>>)
    IN  [k \in 1..Len(pieces) |-> Trim(pieces[k])]

\* What the user can choose or type.
GenreOptions == {"fantasy", "mystery", "sci-fi"}
CharacterInputs == {<<"Arya", ",", SP, "Tom">>, <<>>}
\* e.target.value of the number input: the numeral of n, a string.
Numeral(n) == [t |-> "string", n |-> n]
ParagraphInputs == {Numeral(n) : n \in 1..MaxParagraphs}

\* resp.data of a 2xx answer: a story, and images or none.
NoImages == [t |-> "undefined", a |-> <<>>]
ImageArray(a) == [t |-> "array", a |-> a]
AnswerData ==
    { [story |-> s, images |-> im] :
         s \in {<<"a">>, <<"a", NL, "b">>},
         im \in {NoImages, ImageArray(<<>>), ImageArray(<<"u1">>)} }
\* resp.data.images || []
ImagesOrEmpty(im) == IF im.t = "array" THEN im.a ELSE <<>>

\* The statuses of the server's error answers; axios rejects on each.
ErrorAnswers == {402, 502, 500}

\* onChange of the three inputs.
setGenre(g) ==
    /\ form' = [form EXCEPT !.genre = g]
    /\ UNCHANGED <<post, health, generation>>
setCharacters(c) ==
    /\ form' = [form EXCEPT !.characters = c]
    /\ UNCHANGED <<post, health, generation>>
setParagraphs(p) ==
    /\ form' = [form EXCEPT !.paragraphs = p]
    /\ UNCHANGED <<post, health, generation>>

\* A click on the button, which is disabled while loading: setLoading(true)
\* and axios.post of the form's values.
Submit ==
    /\ ~form.loading
    /\ form' = [form EXCEPT !.loading = TRUE]
    /\ post' = [state |-> "pending", status |-> 0,
                body |-> [genre |-> form.genre,
                          characters |-> CharacterList(form.characters),
                          paragraphs |-> form.paragraphs]]
    /\ UNCHANGED <<health, generation>>

\* The server answered 2xx: the promise resolves, and submit goes on to
\* setStory, setImages and setLoading(false).
AxiosResolves(data) ==
    /\ post.state = "pending"
    /\ post' = [post EXCEPT !.state = "resolved", !.status = 200]
    /\ form' = [form EXCEPT !.story = data.story,
                            !.images = ImagesOrEmpty(data.images),
                            !.loading = FALSE]
    /\ UNCHANGED <<health, generation>>

\* The server answered with an error status, or the request failed on the
\* network (status 0): the promise rejects, the await throws and submit
\* ends there; nothing catches it.
AxiosRejects(status) ==
    /\ post.state = "pending"
    /\ post' = [post EXCEPT !.state = "rejected", !.status = status]
    /\ UNCHANGED <<form, health, generation>>

\* The request comes to an end, one way or the other.
AxiosSettles ==
    \/ \E data \in AnswerData : AxiosResolves(data)
    \/ \E status \in ErrorAnswers \cup {0} : AxiosRejects(status)

ClientNext ==
    \/ \E g \in GenreOptions : setGenre(g)
    \/ \E c \in CharacterInputs : setCharacters(c)
    \/ \E p \in ParagraphInputs : setParagraphs(p)
    \/ Submit
    \/ AxiosSettles

ClientSpec == Init /\ [][ClientNext]_vars

\* Every request the client makes comes to an end: the server answers or
\* the connection fails.
ClientLiveSpec == ClientSpec /\ WF_vars(AxiosSettles)

----------------------------------------------------------------------------
(* GET /health *)

\* An uptime read in units twice as coarse as the clock's.
UptimeCoarse(c) == c \div 2

\* process.uptime(): the time since the process started, at the full
\* resolution of the monotonic clock.
Uptime(c) == c

\* Date.now(): the wall clock, which the process does not control.
WallClock == {"T1", "T2"}

\* res.json({ status: "ok", uptime: process.uptime(), time: Date.now() })
HealthResponse(uptime, time) ==
    [status |-> 200, body |-> [status |-> "ok", uptime |-> uptime, time |-> time]]

\* Time passes between two requests.
Tick ==
    /\ clock < MaxClock
    /\ clock' = clock + 1
    /\ UNCHANGED <<healthSent, client, generation>>

\* The handler of GET /health: it reads the clock and answers; running it
\* takes time, so the next reading of the clock is a later one.
Health(now) ==
    /\ clock < MaxClock
    /\ Len(healthSent) < MaxHealthCalls
    /\ healthSent' = Append(healthSent, HealthResponse(Uptime(clock), now))
    /\ clock' = clock + 1
    /\ UNCHANGED <<client, generation>>

HealthNext ==
    \/ Tick
    \/ \E now \in WallClock : Health(now)

HealthSpec == Init /\ [][HealthNext]_vars

----------------------------------------------------------------------------
(* The claims *)

Done == pc = "done"

\* The image calls of the request in progress.
ImageCallsOf == {k \in 1..Len(calls) : calls[k].endpoint = "image"}
\* The text call returned 2xx and its body was parsed.
TextSucceeded ==
    calls # <<>> /\ calls[1].state = "complete" /\ calls[1].status = 200
\* The text call threw: the fetch or the body read rejected, or the timer
\* aborted it.
TextThrew ==
    calls # <<>> /\ calls[1].state \in {"failed", "unparseable", "aborted"}

\* A paragraph count of the request model: a number from 1 on.
ValidCount == Paragraphs.t = "number" /\ Paragraphs.n >= 1

IsSynthetic(r) ==
    r.status = 200 /\ r.keys = {"story", "paragraphs", "images"}
IsUpstreamStory(r) ==
    r.status = 200 /\ r.keys = {"story", "raw", "images"}
IsStructuredError(r) ==
    /\ r.status \in {402, 502, 500}
    /\ \/ "code" \in r.keys /\ r.code \in {"insufficient_balance", "upstream_error"}
       \/ "error" \in r.keys /\ r.error \in {"network_or_upstream", "server_error"}

\* C1: the handler never sends a second response and never lets an
\* exception escape; once it has run to its end it has sent exactly one
\* response, which is the synthetic 200, the upstream-story 200 (story, raw
\* payload, images) or a structured error with status 402, 502 or 500; until
\* then it has sent none.  A request without a body ends in the 500.
C1_ExactlyOneTerminalResponse ==
    /\ ~uncaught
    /\ Len(sent) <= 1
    /\ Done => /\ Len(sent) = 1
               /\ IsSynthetic(sent[1]) \/ IsUpstreamStory(sent[1])
                    \/ IsStructuredError(sent[1])
               /\ ~req.present => sent[1].status = 500
    /\ ~Done => sent = <<>>

\* C1's case: a request without a body has been answered with the 500.
C1_Witness ==
    Done /\ ~req.present /\ Len(sent) = 1 /\ sent[1].error = "server_error"

\* The k-th synthetic paragraph, written out.
SyntheticEntry(kind, k) ==
    <<"Paragraph", SP, ToString(k), ":", SP, "A", SP, kind, SP>> \o Genre
    \o <<SP, "scene", SP, "featuring", SP>>
    \o (IF req.characters = <<>> THEN <<"characters">> ELSE CharStr) \o <<".">>

\* Every entry followed by a blank line, in order.
RECURSIVE EachThenBlankLine(_)
EachThenBlankLine(arr) ==
    IF arr = <<>> THEN <<>>
    ELSE arr[1] \o <<NL, NL>> \o EachThenBlankLine(Tail(arr))

\* C2: with fallback enabled and no key, no upstream call is ever issued,
\* and a request for N paragraphs, N from 1 on, is answered 200 with
\* paragraphs holding exactly the N synthetic entries numbered 1..N in
\* order, story being those entries joined by a blank line, then a blank
\* line and the preface line, and images empty.
C2_NoKeyFallback ==
    (DEV_FALLBACK /\ DEEPINFRA_API_KEY = "") =>
        /\ calls = <<>>
        /\ (Done /\ req.present /\ ValidCount) =>
              /\ Len(sent) = 1
              /\ sent[1].status = 200
              /\ sent[1].paragraphs =
                    [k \in 1..Paragraphs.n |-> SyntheticEntry("short", k)]
              /\ sent[1].story =
                    EachThenBlankLine(sent[1].paragraphs)
                    \o <<"Preface:", SP, "This", SP, "is", SP, "a", SP,
                         "placeholder", SP, "summary.">>
              /\ sent[1].images = <<>>

\* C2's case: the largest count has been answered on the no-key path.
C2_Witness ==
    /\ DEV_FALLBACK /\ DEEPINFRA_API_KEY = "" /\ Done /\ req.present
    /\ req.paragraphs = Num(MaxParagraphs)
    /\ Len(sent) = 1 /\ Len(sent[1].paragraphs) = MaxParagraphs

\* C3: when the text call threw (network error, timeout), then with
\* fallback enabled a request for N paragraphs, N from 1 on, is answered 200
\* with the fallback story: the N fallback entries, the fallback preface,
\* no images, and no raw payload, which every upstream story carries; with
\* fallback disabled the answer is 502 with error network_or_upstream.
C3_TextCallThrew ==
    (Done /\ TextThrew) =>
        /\ Len(sent) = 1
        /\ (DEV_FALLBACK /\ ValidCount) =>
              /\ IsSynthetic(sent[1]) /\ ~IsUpstreamStory(sent[1])
              /\ sent[1].paragraphs =
                    [k \in 1..Paragraphs.n |-> SyntheticEntry("fallback", k)]
              /\ sent[1].story =
                    EachThenBlankLine(sent[1].paragraphs)
                    \o <<"Preface:", SP, "This", SP, "is", SP, "a", SP,
                         "fallback", SP, "placeholder.">>
              /\ sent[1].images = <<>>
        /\ ~DEV_FALLBACK =>
              /\ sent[1].status = 502
              /\ sent[1].error = "network_or_upstream"

\* C3's cases: the timer aborted the text call and the fallback story went
\* out.
C3_Witness ==
    /\ Done /\ DEV_FALLBACK /\ ValidCount
    /\ calls # <<>> /\ calls[1].state = "aborted"
    /\ Len(sent) = 1 /\ sent[1].status = 200

\* The text call returned a non-2xx status and its body was read; resp is
\* then still the text call's Response.
TextAnsweredNon2xx ==
    /\ calls # <<>> /\ calls[1].state = "complete"
    /\ calls[1].status \notin {0} \cup (200..299)

\* The body holds "balance" or "top-up" in some letter case.
MentionsBalance(bodyText) ==
    \E k \in 1..Len(bodyText) :
        bodyText[k] \in {"balance", "Balance", "BALANCE",
                         "top-up", "Top-Up", "TOP-UP"}

\* C4: a non-2xx answer of the text model whose body mentions balance or
\* top-up, in any letter case, is answered 402 with code
\* insufficient_balance; one whose body mentions neither is answered 502
\* with code upstream_error and the upstream's status.
C4_BalanceClassification ==
    (Done /\ TextAnsweredNon2xx) =>
        /\ Len(sent) = 1
        /\ MentionsBalance(resp.body) =>
              /\ sent[1].status = 402
              /\ sent[1].code = "insufficient_balance"
        /\ ~MentionsBalance(resp.body) =>
              /\ sent[1].status = 502
              /\ sent[1].code = "upstream_error"
              /\ sent[1].upstream = calls[1].status

\* C4's case: a body that says Balance with a capital has been answered 402.
C4_Witness ==
    /\ Done /\ TextAnsweredNon2xx
    /\ resp.body = <<"Insufficient", SP, "Balance">>
    /\ Len(sent) = 1 /\ sent[1].status = 402

ImagesRequested == req.present /\ req.imagesPerParagraph
Is2xx(status) == status \in 200..299
GenerationFailed == <<"image_generation_failed">>

\* Every image call returned a whole HTTP response, status line and body;
\* every image call returned one and the handler could read its body.
EveryImageCallAnswered ==
    \A k \in ImageCallsOf : calls[k].state \in {"complete", "unparseable"}
EveryImageCallRead == \A k \in ImageCallsOf : calls[k].state = "complete"

\* One slot per processed paragraph, one call per paragraph, and an error
\* descriptor exactly in the slots whose call returned non-2xx.
SlotPerParagraph ==
    /\ Len(sent) = 1 /\ sent[1].images = images
    /\ Len(images) = Len(paraArr)
    /\ Cardinality(ImageCallsOf) = Len(paraArr)
    /\ \A j \in 1..Len(images) :
          /\ j + 1 <= Len(calls)
          /\ images[j].t = "error" <=> ~Is2xx(calls[j + 1].status)

\* C5 as stated: when images are requested and every image call returned
\* an HTTP response, 2xx or not, images has one slot per processed
\* paragraph, and slot i is an error descriptor iff call i returned non-2xx.
C5_AsStated ==
    (Done /\ TextSucceeded /\ ImagesRequested /\ EveryImageCallAnswered) =>
        SlotPerParagraph

\* C5, amended: when images are requested and every image call returned an
\* HTTP response whose body was read (as text for non-2xx, as JSON for
\* 2xx), images has one slot per processed paragraph, slot i is an error
\* descriptor iff call i returned non-2xx, and a non-2xx on paragraph i
\* does not keep the later calls from being made.
C5_SlotPerParagraph ==
    (Done /\ TextSucceeded /\ ImagesRequested /\ EveryImageCallRead) =>
        SlotPerParagraph

\* C5's case: three paragraphs, the second call non-2xx: three slots, two
\* references and the error in the middle.
C5_Witness ==
    /\ Done /\ TextSucceeded /\ ImagesRequested /\ EveryImageCallRead
    /\ Len(paraArr) = 3 /\ Len(images) = 3
    /\ images[1].t = "url" /\ images[2].t = "error" /\ images[3].t = "url"
    /\ ~Is2xx(calls[3].status)

\* An image call threw: its fetch or body read rejected, or it was aborted.
Threw(k) == calls[k].state \in {"failed", "unparseable", "aborted"}

C6_State ==
    \A k \in ImageCallsOf : Threw(k) =>
        /\ k = Len(calls)
        /\ Done
        /\ Len(images) = calls[k].para + 1
        /\ images[Len(images)].error = GenerationFailed
        /\ \A j \in 1..(Len(images) - 1) : images[j].error # GenerationFailed
        /\ Len(sent) = 1 /\ sent[1].images = images

C6_Step ==
    (/\ pc \in {"img_fetch", "img_body"}
     /\ Len(calls') = Len(calls)
     /\ calls'[Len(calls)].state \in {"failed", "unparseable", "aborted"}) =>
        /\ Len(images') = Len(images) + 1
        /\ SubSeq(images', 1, Len(images)) = images

\* C6: when the image call for paragraph i throws, it stays the last call
\* of the request, exactly one image_generation_failed descriptor is
\* appended, at slot i, and the slots collected before are returned
\* unchanged and in order.
C6_ImageCallThrows == [] C6_State /\ [][C6_Step]_vars

\* C6's case: the third image call threw after two slots were collected.
C6_Witness ==
    /\ Done /\ Len(calls) = 4 /\ Threw(4) /\ calls[4].status = 0
    /\ Len(images) = 3 /\ images[3].error = GenerationFailed

\* C7: once the text call has succeeded, the request is answered 200 with
\* the story text and the raw payload whatever the image calls do; a call
\* that failed shows only as an error descriptor in its slot of images.
C7_ImagesNeverFailRequest ==
    (Done /\ TextSucceeded) =>
        /\ Len(sent) = 1
        /\ IsUpstreamStory(sent[1])
        /\ sent[1].story = ToJSString(storyText)
        /\ sent[1].raw = textResp
        /\ sent[1].images = images
        /\ \A k \in ImageCallsOf :
              (Threw(k) \/ ~Is2xx(calls[k].status)) =>
                  images[calls[k].para + 1].t = "error"

\* C7's case: an image call ran into its timeout and the story went out.
C7_Witness ==
    /\ Done /\ TextSucceeded /\ Len(calls) >= 2
    /\ calls[Len(calls)].state = "aborted"
    /\ Len(sent) = 1 /\ sent[1].status = 200

\* C8: at most one upstream call is outstanding; the first call is the text
\* call and the others are the image calls for paragraphs 0, 1, ... in
\* order, each issued with the paragraph's text and only once the call
\* before it is complete; slot i of images belongs to paragraph i.
C8_OneCallAtATime ==
    /\ Cardinality(Outstanding) <= 1
    /\ calls # <<>> => calls[1].endpoint = "text"
    /\ \A k \in 2..Len(calls) :
          /\ calls[k].endpoint = "image"
          /\ calls[k].para = k - 2
          /\ calls[k].prompt = ImagePrompt(paraArr[k - 1])
          /\ calls[k - 1].state = "complete"
    /\ \A j \in 1..Len(images) : images[j].para = j - 1

\* C8's case: the third image call is in flight, alone.
C8_Witness ==
    /\ Len(calls) = 4 /\ Outstanding = {4} /\ Len(images) = 2

\* C9 as stated: every request the handler has taken up is answered in the
\* end, because every upstream call is cut off by its timer.
C9_EveryRequestAnswered == (pc = "handler") ~> Done

\* The story is a string without a non-blank character.
BlankStory == storyText.t = "string" /\ \A k \in 1..Len(storyText.s) : IsSpace(storyText.s[k])

\* C10 as stated: when images are requested and the story has no non-blank
\* segment, the whole story is the one segment: one image call, one slot.
C10_AsStated ==
    (Done /\ TextSucceeded /\ ImagesRequested /\ BlankStory) =>
        /\ Cardinality(ImageCallsOf) = 1
        /\ Len(sent[1].images) = 1

\* C10, amended: when images are requested and the text call succeeded,
\* the whole story is the one segment (one image call, one slot) when the
\* extracted story is not a string; when it is a string without a non-blank
\* segment, no image call is made and images is empty.
C10_WholeStoryOnlyForNonString ==
    (TextSucceeded /\ ImagesRequested) =>
        /\ storyText.t # "string" =>
              /\ paraArr = <<storyText>>
              /\ Cardinality(ImageCallsOf) = 1
              /\ Done => Len(sent[1].images) = 1
        /\ BlankStory =>
              /\ ImageCallsOf = {}
              /\ Done /\ sent[1].images = <<>>

\* C10's case: a story of white space only has been answered without images.
C10_Witness ==
    /\ Done /\ TextSucceeded /\ ImagesRequested /\ BlankStory
    /\ storyText.s # <<>> /\ Len(sent) = 1 /\ sent[1].images = <<>>

\* The story as the response carries it, and where its non-blank segments
\* start: a segment is a maximal run without a newline, and it is non-blank
\* when it holds more than spaces.
SentStory == ToJSString(storyText)
SegmentEnd(s, a) ==
    CHOOSE b \in a..Len(s) :
        /\ \A j \in a..b : s[j] # NL
        /\ b = Len(s) \/ s[b + 1] = NL
SegmentStarts(s) ==
    {a \in 1..Len(s) :
        /\ s[a] # NL
        /\ a = 1 \/ s[a - 1] = NL
        /\ \E j \in a..SegmentEnd(s, a) : s[j] # SP}
\* The place of the segment starting at a among the non-blank segments.
Rank(s, a) == Cardinality({b \in SegmentStarts(s) : b <= a})

\* C11: when images are requested with a paragraph count N from 1 on and
\* the text call succeeded, the paragraphs processed are the first
\* min(N, K) of the story's K non-blank newline-separated segments, in
\* their order, each call carrying its segment; so there are never more
\* than N image calls or image slots.
C11_FirstSegmentsUpToN ==
    (TextSucceeded /\ ImagesRequested /\ ValidCount) =>
        LET s == SentStory
            K == Cardinality(SegmentStarts(s))
            N == Paragraphs.n
        IN  /\ Len(paraArr) = Min(N, K)
            /\ \A a \in SegmentStarts(s) :
                  Rank(s, a) <= N =>
                      ToJSString(paraArr[Rank(s, a)])
                          = SubSeq(s, a, SegmentEnd(s, a))
            /\ Cardinality(ImageCallsOf) <= N
            /\ Len(images) <= N
            /\ Done => /\ Len(sent[1].images) <= N
                       /\ EveryImageCallRead => Len(images) = Min(N, K)

\* C11's case: two paragraphs asked of a story of four segments, two slots.
C11_Witness ==
    /\ Done /\ TextSucceeded /\ ImagesRequested
    /\ Paragraphs = Num(2) /\ Cardinality(SegmentStarts(SentStory)) = 4
    /\ EveryImageCallRead /\ Len(images) = 2

\* A field is present when the payload holds a value for it.
Present(v) == ~Nullish(v)
FirstPresent(vs, otherwise) ==
    IF \E k \in 1..Len(vs) : Present(vs[k])
    THEN vs[CHOOSE k \in 1..Len(vs) :
                Present(vs[k]) /\ \A m \in 1..(k - 1) : ~Present(vs[m])]
    ELSE otherwise

\* The extraction order as the claim words it: the first attempt whose
\* field is present wins.
StatedExtraction(j) ==
    CASE j.kind = "string" -> Str(j.str)
      [] j.kind = "object" /\ Present(j.output) -> j.output
      [] j.kind = "object" /\ ~Present(j.output) /\ j.results # <<>> ->
         LET r0 == j.results[1]
         IN  FirstPresent(<<r0.output, r0.content, r0.text>>,
                          Str(StringifyResult(r0)))
      [] j.kind = "object" /\ ~Present(j.output) /\ j.results = <<>>
            /\ j.choices # <<>> ->
         LET c0 == j.choices[1]
         IN  FirstPresent(<<c0.text, c0.message>>, Str(StringifyChoice(c0)))
      [] j.kind = "object" /\ ~Present(j.output) /\ j.results = <<>>
            /\ j.choices = <<>> /\ j.detail = "error" ->
         Str(StringifyDetail(j.detail))
      [] OTHER -> Str(JSONstringify(j))

\* The story is the serialized whole payload, and no other payload has the
\* same serialization: parsing it gives the payload back.
RecoveredByParsing(j, story) ==
    /\ story = Str(JSONstringify(j))
    /\ \A q \in TextPayloads : JSONstringify(q) = story.s => q = j

\* C12: the story extracted from a parsed 2xx text payload is the first
\* match of: the payload itself if a plain string; its output field; of
\* results[0] the output, then content, then text, else results[0]
\* serialized; of choices[0] the text, then the message content, else
\* choices[0] serialized; the serialized error descriptor; the serialized
\* whole payload, from which parsing recovers the payload.
C12_ExtractionOrder ==
    TextSucceeded =>
        /\ storyText = StatedExtraction(textResp)
        /\ (textResp.kind = "string" => storyText = Str(textResp.str))
        /\ (storyText = Str(JSONstringify(textResp)) /\ textResp.kind # "string"
               => RecoveredByParsing(textResp, storyText))

TextCallsOf == {k \in 1..Len(calls) : calls[k].endpoint = "text"}

\* C13: within one request the text endpoint is called at most once and
\* the image endpoint at most once for each paragraph, whatever failed.
C13_NoRetry ==
    /\ Cardinality(TextCallsOf) <= 1
    /\ \A k, m \in ImageCallsOf : calls[k].para = calls[m].para => k = m
    /\ \A k \in ImageCallsOf : calls[k].para \in 0..(Len(paraArr) - 1)
    /\ TextCallsOf \subseteq {1}

\* C13's case: a request that ended after a non-2xx image answer and an
\* image call that threw.
C13_Witness ==
    /\ Done
    /\ \E k \in ImageCallsOf : calls[k].state = "complete" /\ ~Is2xx(calls[k].status)
    /\ \E k \in ImageCallsOf : calls[k].state \in {"failed", "aborted"}
    /\ TextSucceeded

\* C14: every answer of GET /health is a 200 with status "ok", and within
\* one run of the process the uptimes of the answers strictly increase in
\* the order of the calls.
C14_HealthUptimeIncreases ==
    /\ \A k \in 1..Len(healthSent) :
          /\ healthSent[k].status = 200
          /\ healthSent[k].body.status = "ok"
    /\ \A k, m \in 1..Len(healthSent) :
          k < m => healthSent[k].body.uptime < healthSent[m].body.uptime

\* C14's case: the most calls of one run, two of them back to back.
C14_Witness ==
    /\ Len(healthSent) = MaxHealthCalls
    /\ healthSent[2].body.uptime = healthSent[1].body.uptime + 1

\* The slot the claim words for a parsed payload: a url reference to the
\* first present of output_url, url and results[0].output, the raw payload
\* when none of the three is present.
StatedSlot(json, para) ==
    LET refs == <<json.output_url, json.url, json.result_output>>
    IN  IF \E k \in 1..3 : Present(refs[k])
        THEN UrlSlot(FirstPresent(refs, Null), para)
        ELSE RawSlot(json, para)

SlotsOf(para) == {n \in 1..Len(images) : images[n].para = para}

\* C15: every 2xx image answer whose payload was parsed has exactly one
\* slot; the slot is a url reference to the first present of output_url,
\* url and results[0].output, or the raw payload if none is present.
C15_FirstPresentReference ==
    \A k \in ImageCallsOf :
        (calls[k].state = "complete" /\ Is2xx(calls[k].status)) =>
            /\ Cardinality(SlotsOf(calls[k].para)) = 1
            /\ \A n \in SlotsOf(calls[k].para) :
                  /\ images[n].t \in {"url", "raw"}
                  /\ n = Len(images) => images[n] = StatedSlot(imgJson, calls[k].para)

\* C16: with fallback mode disabled no response is a 200 with synthetic
\* placeholder content, with or without an API key and whatever the
\* upstream does.
C16_SyntheticOnlyWithFallback ==
    ~DEV_FALLBACK => \A k \in 1..Len(sent) : ~IsSynthetic(sent[k])

\* C16's case: fallback disabled, no key, the text call threw, and the
\* request ended in the 502.
C16_Witness ==
    /\ ~DEV_FALLBACK /\ DEEPINFRA_API_KEY = ""
    /\ Done /\ TextThrew
    /\ Len(sent) = 1 /\ sent[1].status = 502

\* C17: a non-2xx answer of the text model whose body was read is never
\* replaced by the fallback story: the request ends with status 402 or
\* 502, not 200, also when fallback mode is enabled.
C17_Non2xxNeverFallsBack ==
    TextAnsweredNon2xx =>
        /\ Len(sent) = 1
        /\ sent[1].status \in {402, 502}
        /\ ~IsSynthetic(sent[1]) /\ ~IsUpstreamStory(sent[1])
        /\ ImageCallsOf = {}

\* C17's case: fallback mode enabled, the text model answered 500 and the
\* request ended in the 502.
C17_Witness ==
    /\ DEV_FALLBACK /\ Done /\ TextAnsweredNon2xx
    /\ calls[1].status = 500
    /\ Len(sent) = 1 /\ sent[1].status = 502

\* C18: the image endpoint is called only in a request with
\* imagesPerParagraph true whose text call returned 2xx; in every other
\* request (no-key fallback, fallback after a failed text call, error
\* answers, imagesPerParagraph false) there is no image call and a 200
\* response carries an empty images sequence.
C18_ImagesOnlyWhenAsked ==
    /\ ImageCallsOf # {} => ImagesRequested /\ TextSucceeded
    /\ ~(ImagesRequested /\ TextSucceeded) =>
          /\ images = <<>>
          /\ \A k \in 1..Len(sent) :
                sent[k].status = 200 => sent[k].images = <<>>

\* C18's case: a story of several paragraphs was sent without images
\* because the request did not ask for them.
C18_Witness ==
    /\ Done /\ TextSucceeded /\ req.present /\ ~req.imagesPerParagraph
    /\ SegmentStarts(SentStory) # {}
    /\ Len(sent) = 1 /\ IsUpstreamStory(sent[1]) /\ sent[1].images = <<>>

\* C19: in the client form, every submit that put the form into the
\* loading state is followed, once the request has come to an end (a 200,
\* 402, 502 or 500 answer, or a network failure), by the return to idle:
\* loading false and the button enabled.
C19_SubmitReturnsToIdle == form.loading ~> ~form.loading
============================================================================
